---------------------------- MODULE Spec2Model ----------------------------
(***************************************************************************)
(* User endpoints (Express + Firebase Realtime Database + OpenWeather).    *)
(*                                                                         *)
(* The shared state is the "users" node of the database.  Every request    *)
(* handler is an async function: it runs synchronously up to an await,     *)
(* and other handlers run while it waits.  One action below is one such    *)
(* synchronous stretch, taken at the moment the awaited call lands: the    *)
(* store call takes effect (or is rejected) and the code up to the next    *)
(* await, or up to the response, runs.  A request's arrival has no effect  *)
(* on shared state, so the arrival of PUT, GET and DELETE is part of the   *)
(* action in which their first store read lands.                           *)
(***************************************************************************)
EXTENDS Integers, FiniteSets, TLC

VARIABLES
    store,     \* usersRef: key -> record (a record with no field does not exist)
    nextKey,   \* the next key usersRef.push() generates
    now,       \* the clock new Date() reads
    reqs,      \* per connection: position and live locals of the handler serving it
    started,   \* requests that have entered a handler so far
    deleted,   \* history: keys whose DELETE answered 200
    last       \* history: what the most recent step was and what it answered

vars == <<store, nextKey, now, reqs, started, deleted, last>>

---------------------------------------------------------------------------
(* Bounds *)

MaxReqs == 2      \* POST, PUT and DELETE requests over a run
MaxKeys == 1      \* keys usersRef.push() can hand out
MaxTime == 1      \* clock readings 0..MaxTime

\* Two clients send the requests, each its next one after the answer to its
\* last: at any moment at most two handlers are between their awaits.
Reqs == {1, 2}
Keys == 1..MaxKeys
Times == 0..MaxTime

---------------------------------------------------------------------------
(* Values *)

Empty == [f \in {} |-> ""]

Has(rec, f) == f \in DOMAIN rec

Exists(rec) == DOMAIN rec # {}

\* JavaScript truthiness of a string-or-undefined property: !x is true for
\* an absent property and for the empty string.
Truthy(rec, f) == Has(rec, f) /\ rec[f] # ""

\* Object property merge: the fields of upd win, the others are kept.
Merge(upd, rec) == upd @@ rec

BodyNames == {"", "Ana", "Bob"}
BodyZips == {"", "94105", "10001"}
BodyCountries == {"DE"}
ForgedTime == 0 - 1

\* JSON bodies: any subset of the three properties the handlers read.
Bodies ==
    UNION { [D -> BodyNames \cup BodyZips \cup BodyCountries] :
              D \in SUBSET {"name", "zipCode", "country"} }

WellTyped(b) ==
    /\ Has(b, "name") => b.name \in BodyNames
    /\ Has(b, "zipCode") => b.zipCode \in BodyZips
    /\ Has(b, "country") => b.country \in BodyCountries

PostBodies == { b \in Bodies : WellTyped(b) }

\* A PUT body may also carry id and createdAt properties of its own.
Forged == [id |-> 0, createdAt |-> ForgedTime]

PutBodies ==
    PostBodies \cup { Merge(Forged, b) : b \in { c \in PostBodies : ~Has(c, "country") } }


---------------------------------------------------------------------------
(* The geolocation resolver (external service, reached by getLocationData) *)

\* /geo/1.0/zip?zip={zipCode},{country}: name, lat, lon (in 1/100 degree), country.
GeoResponse(zipCode, country) ==
    LET c == country IN
    CASE zipCode = "94105" /\ c = "US" ->
           [name |-> "San Francisco", lat |-> 3779, lon |-> 0 - 12239, country |-> c]
      [] zipCode = "10001" /\ c = "US" ->
           [name |-> "New York", lat |-> 4075, lon |-> 0 - 7399, country |-> c]
      [] zipCode = "94105" /\ c = "DE" ->
           [name |-> "Passau", lat |-> 4857, lon |-> 1346, country |-> c]
      [] OTHER ->
           [name |-> "Berlin", lat |-> 5252, lon |-> 1340, country |-> c]

\* /data/2.5/weather?lat={lat}&lon={lon}: timezone (shift from UTC, seconds).
TimezoneResponse(lat, lon) ==
    CASE lon < 0 - 10000 -> 0 - 28800
      [] lon < 0 -> 0 - 18000
      [] OTHER -> 3600

ResolverOutcomes == {"ok", "geo_error", "weather_error"}

getLocationDataSwallowsError(zipCode, country, outcome) ==
    LET geo == GeoResponse(zipCode, country) IN
    [ok |-> TRUE,
     location |-> [name |-> geo.name, lat |-> geo.lat, lon |-> geo.lon,
                   country |-> geo.country,
                   timezone |-> TimezoneResponse(geo.lat, geo.lon)]]

\* ok = FALSE: the function throws "Failed to fetch location data".
getLocationData(zipCode, country, outcome) ==
    LET geo == GeoResponse(zipCode, country) IN
    [ok |-> outcome = "ok",
     location |-> [name |-> geo.name, lat |-> geo.lat, lon |-> geo.lon,
                   country |-> geo.country,
                   timezone |-> TimezoneResponse(geo.lat, geo.lon)]]

\* const { name, zipCode, ... } = req.body; the handlers only test these and
\* copy them when truthy, so undefined is read as the (equally falsy) "".
NameOf(body) == IF Has(body, "name") THEN body.name ELSE ""

ZipOf(body) == IF Has(body, "zipCode") THEN body.zipCode ELSE ""

\* const { ..., country = "US" } = req.body
CountryOf(body) == IF Has(body, "country") THEN body.country ELSE "US"

---------------------------------------------------------------------------
(* The handlers' pure parts *)

\* if (!name || !zipCode) return res.status(400)
PostInvalidNameOnly(body) == ~Truthy(body, "name")

PostInvalid(body) == ~Truthy(body, "name") \/ ~Truthy(body, "zipCode")

\* const userData = { id: newUserRef.key, name, zipCode, country: location.country, ... }
NewUserDataSwapsLatLon(key, name, zipCode, location, t1, t2) ==
    [id |-> key, name |-> name, zipCode |-> zipCode,
     country |-> location.country, lat |-> location.lon, lon |-> location.lat,
     timezone |-> location.timezone, createdAt |-> t1, updatedAt |-> t2]

NewUserData(key, name, zipCode, location, t1, t2) ==
    [id |-> key, name |-> name, zipCode |-> zipCode,
     country |-> location.country, lat |-> location.lat, lon |-> location.lon,
     timezone |-> location.timezone, createdAt |-> t1, updatedAt |-> t2]

\* const updates = { name: name || currentUser.name, updatedAt: new Date().toISOString() }
\* (a property whose value is undefined is left out here; update() rejects it)
InitialUpdatesSpreadsBody(body, currentUser, t) ==
    Merge([updatedAt |-> t],
          Merge([f \in DOMAIN body \ {"zipCode", "country"} |-> body[f]],
                [f \in DOMAIN currentUser \cap {"name"} |-> currentUser[f]]))

InitialUpdates(body, currentUser, t) ==
    Merge([updatedAt |-> t],
          IF Truthy(body, "name") THEN [name |-> body.name]
          ELSE [f \in DOMAIN currentUser \cap {"name"} |-> currentUser[f]])

\* if (zipCode && zipCode !== currentUser.zipCode)
ZipChangedAlways(body, currentUser) == Truthy(body, "zipCode")

ZipChanged(body, currentUser) ==
    /\ Truthy(body, "zipCode")
    /\ ~(Has(currentUser, "zipCode") /\ currentUser.zipCode = body.zipCode)

\* Object.assign(updates, { zipCode, lat, lon, timezone, country })
LocationUpdatesWithoutTimezone(updates, zipCode, location) ==
    Merge([zipCode |-> zipCode, lat |-> location.lat, lon |-> location.lon,
           country |-> location.country], updates)

LocationUpdatesKeepsCountry(updates, zipCode, location) ==
    Merge([zipCode |-> zipCode, lat |-> location.lat, lon |-> location.lon,
           timezone |-> location.timezone], updates)

LocationUpdates(updates, zipCode, location) ==
    Merge([zipCode |-> zipCode, lat |-> location.lat, lon |-> location.lon,
           timezone |-> location.timezone, country |-> location.country], updates)

---------------------------------------------------------------------------
(* The store's calls: each lands as a whole or is rejected as a whole *)

\* ref.set(value): the node becomes value
SetNode(ok, node, value) == IF ok THEN value ELSE node

\* ref.update(values): the named children are written, the others are kept;
\* on a node that does not exist this creates it.
UpdateNode(ok, node, values) == IF ok THEN Merge(values, node) ELSE node

\* ref.remove()
RemoveNode(ok, node) == IF ok THEN Empty ELSE node

---------------------------------------------------------------------------
(* State *)

\* A connection with no request in a handler.
IdleReq == [pc |-> "idle", id |-> 0, body |-> Empty, updates |-> Empty, calls |-> 0]

\* What a step did: the action, the connection, the key, the HTTP status it
\* answered (0: no answer yet), the request's body, how the awaited call
\* ended, the getLocationData calls the request has made, the JSON sent.
Event(op, r, id, status, body, outcome, calls, sent) ==
    [op |-> op, r |-> r, id |-> id, status |-> status, body |-> body,
     outcome |-> outcome, calls |-> calls, sent |-> sent]

StoreOutcome(ok) == IF ok THEN "ok" ELSE "store_error"

\* The database outlives the server: at start it is empty, or it holds a
\* record an earlier POST /users stored.
StoredBefore ==
    NewUserData(1, "Ana", "94105", getLocationData("94105", "US", "ok").location, 0, 0)

Init ==
    /\ \E n \in {0, 1} :
         /\ store = [k \in Keys |-> IF k <= n THEN StoredBefore ELSE Empty]
         /\ nextKey = n + 1
    /\ now = 0
    /\ reqs = [r \in Reqs |-> IdleReq]
    /\ started = 0
    /\ deleted = {}
    /\ last = Event("Init", 0, 0, 0, Empty, "ok", 0, Empty)

\* A request arrives on the first idle connection.
Arrives(r) ==
    /\ started < MaxReqs
    /\ reqs[r].pc = "idle"
    /\ \A q \in Reqs : q < r => reqs[q].pc # "idle"

Posting == { r \in Reqs : reqs[r].pc = "post_resolve" }

---------------------------------------------------------------------------
(* The clock *)

Tick ==
    /\ now < MaxTime
    /\ now' = now + 1
    /\ last' = Event("Tick", 0, 0, 0, Empty, "ok", 0, Empty)
    /\ UNCHANGED <<store, nextKey, reqs, started, deleted>>

---------------------------------------------------------------------------
(* POST /users *)

\* The request arrives; the body is validated; getLocationData is called.
PostArrive(r, body) ==
    /\ Arrives(r)
    /\ IF PostInvalid(body)
       THEN /\ reqs' = [reqs EXCEPT ![r] = IdleReq]
            /\ last' = Event("PostArrive", r, 0, 400, body, "ok", 0, Empty)
       ELSE /\ nextKey + Cardinality(Posting) <= MaxKeys   \* bound: a key is left
            /\ reqs' = [reqs EXCEPT ![r] =
                          [IdleReq EXCEPT !.pc = "post_resolve", !.body = body,
                                          !.calls = 1]]
            /\ last' = Event("PostArrive", r, 0, 0, body, "ok", 1, Empty)
    /\ started' = started + 1
    /\ UNCHANGED <<store, nextKey, now, deleted>>

\* getLocationData returns or throws; on return the key is generated, the
\* record is built (two clock readings) and set() is called.
PostResolved(r, outcome) ==
    /\ reqs[r].pc = "post_resolve"
    /\ LET body == reqs[r].body
           res == getLocationData(ZipOf(body), CountryOf(body), outcome) IN
       IF res.ok
       THEN \E t2 \in {now, now + 1} \cap Times :
              LET userData == NewUserData(nextKey, NameOf(body), ZipOf(body),
                                          res.location, now, t2) IN
              /\ now' = t2
              /\ nextKey' = nextKey + 1
              /\ reqs' = [reqs EXCEPT ![r].pc = "post_set", ![r].id = nextKey,
                                      ![r].updates = userData]
              /\ last' = Event("PostResolved", r, nextKey, 0, body, outcome,
                               reqs[r].calls, Empty)
       ELSE /\ reqs' = [reqs EXCEPT ![r] = IdleReq]
            /\ last' = Event("PostResolved", r, 0, 500, body, outcome,
                             reqs[r].calls, Empty)
            /\ UNCHANGED <<nextKey, now>>
    /\ UNCHANGED <<store, started, deleted>>

\* set() lands or is rejected.
PostSet(r, ok) ==
    /\ reqs[r].pc = "post_set"
    /\ LET key == reqs[r].id
           userData == reqs[r].updates IN
       /\ store' = [store EXCEPT ![key] = SetNode(ok, @, userData)]
       /\ last' = Event("PostSet", r, key, IF ok THEN 201 ELSE 500, reqs[r].body,
                        StoreOutcome(ok), reqs[r].calls, IF ok THEN userData ELSE Empty)
    /\ reqs' = [reqs EXCEPT ![r] = IdleReq]
    /\ UNCHANGED <<nextKey, now, started, deleted>>

---------------------------------------------------------------------------
(* PUT /users/:id *)

\* The request arrives and once("value") lands: 404 if there is no record;
\* else the updates are built and either getLocationData or update() is called.
PutRead(r, id, body, ok) ==
    /\ Arrives(r)
    /\ LET currentUser == store[id]
           updates == InitialUpdates(body, currentUser, now) IN
       IF ~ok
       THEN /\ reqs' = [reqs EXCEPT ![r] = IdleReq]
            /\ last' = Event("PutRead", r, id, 500, body, "store_error", 0, Empty)
       ELSE IF ~Exists(currentUser)
       THEN /\ reqs' = [reqs EXCEPT ![r] = IdleReq]
            /\ last' = Event("PutRead", r, id, 404, body, "ok", 0, Empty)
       ELSE IF ZipChanged(body, currentUser)
       THEN /\ reqs' = [reqs EXCEPT ![r] =
                          [IdleReq EXCEPT !.pc = "put_resolve", !.id = id,
                                          !.body = body, !.updates = updates,
                                          !.calls = 1]]
            /\ last' = Event("PutRead", r, id, 0, body, "ok", 1, Empty)
       ELSE /\ reqs' = [reqs EXCEPT ![r] =
                          [IdleReq EXCEPT !.pc = "put_update", !.id = id,
                                          !.body = body, !.updates = updates]]
            /\ last' = Event("PutRead", r, id, 0, body, "ok", 0, Empty)
    /\ started' = started + 1
    /\ UNCHANGED <<store, nextKey, now, deleted>>

\* getLocationData returns or throws; on return update() is called.
PutResolved(r, outcome) ==
    /\ reqs[r].pc = "put_resolve"
    /\ LET body == reqs[r].body
           res == getLocationData(ZipOf(body), CountryOf(body), outcome) IN
       IF res.ok
       THEN /\ reqs' = [reqs EXCEPT ![r].pc = "put_update",
                                    ![r].updates = LocationUpdates(@, ZipOf(body),
                                                                   res.location)]
            /\ last' = Event("PutResolved", r, reqs[r].id, 0, body, outcome,
                             reqs[r].calls, Empty)
       ELSE /\ reqs' = [reqs EXCEPT ![r] = IdleReq]
            /\ last' = Event("PutResolved", r, reqs[r].id, 500, body, outcome,
                             reqs[r].calls, Empty)
    /\ UNCHANGED <<store, nextKey, now, started, deleted>>

\* update() lands or is rejected; it throws at once on an undefined value.
PutUpdate(r, ok) ==
    /\ reqs[r].pc = "put_update"
    /\ LET id == reqs[r].id
           updates == reqs[r].updates
           landed == ok /\ Has(updates, "name") IN
       /\ store' = [store EXCEPT ![id] = UpdateNode(landed, @, updates)]
       /\ last' = Event("PutUpdate", r, id, IF landed THEN 200 ELSE 500, reqs[r].body,
                        StoreOutcome(landed), reqs[r].calls,
                        IF landed THEN updates ELSE Empty)
    /\ reqs' = [reqs EXCEPT ![r] = IdleReq]
    /\ UNCHANGED <<nextKey, now, started, deleted>>

---------------------------------------------------------------------------
(* DELETE /users/:id *)

\* The request arrives and once("value") lands.
DeleteRead(r, id, ok) ==
    /\ Arrives(r)
    /\ IF ~ok
       THEN /\ reqs' = [reqs EXCEPT ![r] = IdleReq]
            /\ last' = Event("DeleteRead", r, id, 500, Empty, "store_error", 0, Empty)
       ELSE IF ~Exists(store[id])
       THEN /\ reqs' = [reqs EXCEPT ![r] = IdleReq]
            /\ last' = Event("DeleteRead", r, id, 404, Empty, "ok", 0, Empty)
       ELSE /\ reqs' = [reqs EXCEPT ![r] = [IdleReq EXCEPT !.pc = "del_remove", !.id = id]]
            /\ last' = Event("DeleteRead", r, id, 0, Empty, "ok", 0, Empty)
    /\ started' = started + 1
    /\ UNCHANGED <<store, nextKey, now, deleted>>

\* remove() lands or is rejected.
DeleteRemove(r, ok) ==
    /\ reqs[r].pc = "del_remove"
    /\ LET id == reqs[r].id IN
       /\ store' = [store EXCEPT ![id] = RemoveNode(ok, @)]
       /\ deleted' = IF ok THEN deleted \cup {id} ELSE deleted
       /\ last' = Event("DeleteRemove", r, id, IF ok THEN 200 ELSE 500, Empty,
                        StoreOutcome(ok), 0, Empty)
    /\ reqs' = [reqs EXCEPT ![r] = IdleReq]
    /\ UNCHANGED <<nextKey, now, started>>

---------------------------------------------------------------------------
(* GET /users/:id and GET /users: the request arrives and its one store     *)
(* read lands                                                              *)

GetUser(id, ok) ==
    /\ last' = IF ~ok THEN Event("GetUser", 0, id, 500, Empty, "store_error", 0, Empty)
               ELSE IF ~Exists(store[id])
               THEN Event("GetUser", 0, id, 404, Empty, "ok", 0, Empty)
               ELSE Event("GetUser", 0, id, 200, Empty, "ok", 0, store[id])
    /\ UNCHANGED <<store, nextKey, now, reqs, started, deleted>>

\* res.json(snapshot.val() || {}): sent here as the keys listed, k -> TRUE
GetUsers(ok) ==
    /\ last' = IF ~ok THEN Event("GetUsers", 0, 0, 500, Empty, "store_error", 0, Empty)
               ELSE Event("GetUsers", 0, 0, 200, Empty, "ok", 0,
                          [k \in { j \in Keys : Exists(store[j]) } |-> TRUE])
    /\ UNCHANGED <<store, nextKey, now, reqs, started, deleted>>

---------------------------------------------------------------------------

Next ==
    \/ Tick
    \/ \E r \in Reqs, body \in PostBodies : PostArrive(r, body)
    \/ \E r \in Reqs, outcome \in ResolverOutcomes : PostResolved(r, outcome)
    \/ \E r \in Reqs, ok \in BOOLEAN : PostSet(r, ok)
    \/ \E r \in Reqs, id \in Keys, body \in PutBodies, ok \in BOOLEAN : PutRead(r, id, body, ok)
    \/ \E r \in Reqs, outcome \in ResolverOutcomes : PutResolved(r, outcome)
    \/ \E r \in Reqs, ok \in BOOLEAN : PutUpdate(r, ok)
    \/ \E r \in Reqs, id \in Keys, ok \in BOOLEAN : DeleteRead(r, id, ok)
    \/ \E r \in Reqs, ok \in BOOLEAN : DeleteRemove(r, ok)
    \/ \E id \in Keys, ok \in BOOLEAN : GetUser(id, ok)
    \/ \E ok \in BOOLEAN : GetUsers(ok)

Spec == Init /\ [][Next]_vars

---------------------------------------------------------------------------
(* Vocabulary of the properties *)

\* What the resolver answers for a (zipCode, country) pair.
Resolution(zipCode, country) ==
    LET geo == GeoResponse(zipCode, country) IN
    [zipCode |-> zipCode, country |-> geo.country, lat |-> geo.lat, lon |-> geo.lon,
     timezone |-> TimezoneResponse(geo.lat, geo.lon)]

GeoFields == {"zipCode", "country", "lat", "lon", "timezone"}

\* The part of a record that lies in the given fields.
Part(rec, fields) == [f \in DOMAIN rec \cap fields |-> rec[f]]

\* The country a body asks for.
AskedCountry(body) == IF Has(body, "country") THEN body.country ELSE "US"

Supplied(body, f) == Has(body, f) /\ body[f] # ""

---------------------------------------------------------------------------
(* C1: every stored record's lat, lon and timezone are the resolver's      *)
(* answer for the zipCode and country the record stores now; a record      *)
(* that stores no zipCode carries no geolocation field either.             *)
C1_GeoConsistent ==
    \A k \in Keys :
      LET rec == store[k] IN
      IF Has(rec, "zipCode")
      THEN /\ GeoFields \subseteq DOMAIN rec
           /\ Part(rec, GeoFields) = Resolution(rec.zipCode, rec.country)
      ELSE DOMAIN rec \cap GeoFields = {}

(* C1, witness: a PUT has moved the record that was stored at the start to *)
(* another zip code.                                                       *)
C1_Witness ==
    /\ last.op = "PutUpdate" /\ last.status = 200
    /\ Has(store[last.id], "id")
    /\ store[last.id].zipCode = "10001"

---------------------------------------------------------------------------
(* C2, as claimed: once a POST with a name and a zipCode has had its       *)
(* resolver call succeed, it answers 201 and the store holds the record    *)
(* with the supplied name and zipCode and the resolver's answer.           *)
C2_PostAlwaysStores ==
    last.op = "PostSet" =>
      /\ last.status = 201
      /\ Exists(store[last.id])
      /\ store[last.id].id = last.id
      /\ store[last.id].name = last.body.name
      /\ Part(store[last.id], GeoFields) =
           Resolution(last.body.zipCode, AskedCountry(last.body))

\* After a set() that was accepted.
C2_Stored ==
    (last.op = "PostSet" /\ last.outcome = "ok") =>
      /\ last.status = 201
      /\ Supplied(last.body, "name") /\ Supplied(last.body, "zipCode")
      /\ last.sent = store[last.id]
      /\ DOMAIN store[last.id] = GeoFields \cup {"id", "name", "createdAt", "updatedAt"}
      /\ store[last.id].id = last.id
      /\ store[last.id].name = last.body.name
      /\ Part(store[last.id], GeoFields) =
           Resolution(last.body.zipCode, AskedCountry(last.body))

\* The step that builds the record: the key is in use nowhere, createdAt is
\* the clock as the step begins and updatedAt the clock as it ends.
C2_Built ==
    (last'.op = "PostResolved" /\ last'.outcome = "ok") =>
      LET r == last'.r
          key == last'.id IN
      /\ reqs'[r].pc = "post_set" /\ reqs'[r].id = key
      /\ ~Exists(store[key]) /\ key \notin deleted
      /\ \A q \in Reqs : reqs[q].pc # "idle" => reqs[q].id # key
      /\ reqs'[r].updates.createdAt = now
      /\ reqs'[r].updates.updatedAt = now'

(* C2, amended: a POST with a name and a zipCode whose resolver call       *)
(* succeeds and whose set() is accepted answers 201 with the record, and   *)
(* the store holds under a key never in use before exactly: id = the key,  *)
(* the supplied name and zipCode, the resolver's answer for (zipCode,      *)
(* country or "US"), and createdAt and updatedAt read from the clock       *)
(* while the record was built.                                             *)
C2_PostCreates == [](C2_Stored) /\ [][C2_Built]_vars

(* C2, witness: a POST for country "DE" answered 201 and its record is     *)
(* stored, built after the clock had moved.                                *)
C2_Witness ==
    /\ last.op = "PostSet" /\ last.status = 201
    /\ store[last.id].country = "DE"
    /\ store[last.id].updatedAt > 0

---------------------------------------------------------------------------
\* The arrival step of a POST that lacks a name or a zipCode.
C3_Rejected ==
    (last'.op = "PostArrive"
       /\ (~Supplied(last'.body, "name") \/ ~Supplied(last'.body, "zipCode"))) =>
      /\ last'.status = 400
      /\ last'.calls = 0
      /\ store' = store
      /\ reqs'[last'.r] = IdleReq
      /\ nextKey' = nextKey

(* C3: a POST whose name is absent or empty, or whose zipCode is absent or *)
(* empty, is answered 400 at once: no resolver call, no key generated,     *)
(* the store unchanged, the handler finished.                              *)
C3_InvalidPost == [][C3_Rejected]_vars

(* C3, witness: a POST with a name and no zipCode was answered 400.        *)
C3_Witness ==
    /\ last.op = "PostArrive" /\ last.status = 400
    /\ Supplied(last.body, "name") /\ ~Has(last.body, "zipCode")

---------------------------------------------------------------------------
\* The read step of a PUT whose zipCode is the one the record holds.
C4_NoResolve ==
    (/\ last'.op = "PutRead" /\ last'.outcome = "ok"
     /\ Has(last'.body, "zipCode") /\ Has(store[last'.id], "zipCode")
     /\ last'.body.zipCode = store[last'.id].zipCode) =>
      /\ reqs'[last'.r].pc = "put_update"
      /\ reqs'[last'.r].calls = 0
      /\ reqs'[last'.r].updates.updatedAt = now

\* The write step of a PUT that made no resolver call.
C4_Frame ==
    (last'.op = "PutUpdate" /\ last'.status = 200 /\ last'.calls = 0) =>
      /\ Part(store'[last'.id], GeoFields) = Part(store[last'.id], GeoFields)
      /\ store'[last'.id].updatedAt = reqs[last'.r].updates.updatedAt

(* C4: a PUT whose zipCode is the one the record read holds goes to        *)
(* update() without a resolver call, with updatedAt read from the clock;   *)
(* when the update of a PUT that made no resolver call lands, zipCode,     *)
(* country, lat, lon and timezone are as before and updatedAt is the       *)
(* instant the handler read.                                               *)
C4_SameZip == [][C4_NoResolve /\ C4_Frame]_vars

(* C4, witness: a PUT with the record's zipCode, another country and       *)
(* another name has landed without a resolver call; the record keeps its   *)
(* country and its updatedAt has moved.                                    *)
C4_Witness ==
    /\ last.op = "PutUpdate" /\ last.status = 200 /\ last.calls = 0
    /\ Has(last.body, "zipCode") /\ Has(last.body, "country")
    /\ Has(store[last.id], "zipCode")
    /\ last.body.zipCode = store[last.id].zipCode
    /\ last.body.country # store[last.id].country
    /\ store[last.id].name = "Bob"
    /\ store[last.id].updatedAt > store[last.id].createdAt

---------------------------------------------------------------------------
\* The read step of a PUT whose zipCode differs from the record's.
C5_Resolves ==
    (/\ last'.op = "PutRead" /\ last'.outcome = "ok" /\ Exists(store[last'.id])
     /\ Supplied(last'.body, "zipCode")
     /\ ~(Has(store[last'.id], "zipCode")
            /\ store[last'.id].zipCode = last'.body.zipCode)) =>
      /\ reqs'[last'.r].pc = "put_resolve"
      /\ reqs'[last'.r].calls = 1

\* The write step of a PUT that called the resolver.
C5_Replaces ==
    (last'.op = "PutUpdate" /\ last'.status = 200 /\ last'.calls # 0) =>
      /\ last'.calls = 1
      /\ Part(store'[last'.id], GeoFields) =
           Resolution(last'.body.zipCode, AskedCountry(last'.body))

\* Any step, any record: the five fields stay, go, or become one answer.
C5_Whole ==
    \A k \in Keys :
      \/ Part(store'[k], GeoFields) = Part(store[k], GeoFields)
      \/ Part(store'[k], GeoFields) = Empty
      \/ \E z \in BodyZips \ {""}, c \in BodyCountries \cup {"US"} :
           Part(store'[k], GeoFields) = Resolution(z, c)

(* C5: a PUT whose zipCode differs from the record read calls the          *)
(* resolver once, for (zipCode, country or "US"); when its update lands    *)
(* the five fields are the resolver's answer for that pair; and no step    *)
(* changes a record's five fields other than to one resolver answer as a   *)
(* whole, or to nothing.                                                   *)
C5_ZipChange == [][C5_Resolves /\ C5_Replaces /\ C5_Whole]_vars

(* C5, witness: a PUT has moved the record stored at the start to zipCode  *)
(* "10001" in "DE" after one resolver call.                                *)
C5_Witness ==
    /\ last.op = "PutUpdate" /\ last.status = 200 /\ last.calls = 1
    /\ Has(store[last.id], "id")
    /\ store[last.id].zipCode = "10001" /\ store[last.id].country = "DE"

---------------------------------------------------------------------------
\* A step whose awaited call failed; a step that answers neither 200 nor 201.
C6_Fails ==
    /\ last'.outcome # "ok" =>
         /\ last'.status = 500
         /\ last'.r \in Reqs => reqs'[last'.r] = IdleReq
         /\ last'.calls <= 1
    /\ last'.status \notin {200, 201} => store' = store

(* C6: a step in which the resolver call or the store call fails answers   *)
(* 500 and ends the handler, with no second call; and no step other than   *)
(* one that answers 200 or 201 changes the store, so a request answered    *)
(* 500 has changed nothing.                                                *)
C6_FailureLeavesState == [][C6_Fails]_vars

(* C6, witness: the resolver failed for a PUT that supplied a name, and    *)
(* the record is as it was stored.                                         *)
C6_Witness ==
    /\ last.op = "PutResolved" /\ last.status = 500
    /\ Supplied(last.body, "name")
    /\ store[last.id] = StoredBefore

---------------------------------------------------------------------------
(* C7, as claimed: DELETE of a key that holds nothing answers 404; once a  *)
(* DELETE of a key has answered 200, GET of that key never answers 200     *)
(* and GET /users never lists the key.                                     *)
C7_DeletedStaysGone ==
    /\ (last.op = "DeleteRead" /\ last.outcome = "ok" /\ ~Exists(store[last.id]))
         => last.status = 404
    /\ (last.op = "GetUser" /\ last.id \in deleted) => last.status # 200
    /\ (last.op = "GetUsers" /\ last.status = 200) => DOMAIN last.sent \cap deleted = {}

---------------------------------------------------------------------------
\* The write step of a PUT.
C8_Frame ==
    last'.op = "PutUpdate" =>
      Part(store'[last'.id], {"id", "createdAt"}) = Part(store[last'.id], {"id", "createdAt"})

C8_IdIsKey == \A k \in Keys : Has(store[k], "id") => store[k].id = k

(* C8: an update never changes, adds or removes a record's id or           *)
(* createdAt, whatever the body carries; a stored id is the record's key.  *)
C8_Immutable == [](C8_IdIsKey) /\ [][C8_Frame]_vars

(* C8, witness: the update of a body that carries an id and a createdAt of *)
(* its own has landed, and the record has neither.                         *)
C8_Witness ==
    /\ last.op = "PutUpdate" /\ last.status = 200
    /\ Has(last.body, "id") /\ Has(last.body, "createdAt")
    /\ Has(store[last.id], "id")
    /\ store[last.id].id # last.body.id
    /\ store[last.id].createdAt # last.body.createdAt

---------------------------------------------------------------------------
\* Any step, any key.
C9_Created ==
    \A k \in Keys :
      /\ (~Exists(store[k]) /\ Exists(store'[k])) => last'.op = "PostSet"
      /\ Exists(store'[k]) => {"id", "zipCode", "createdAt"} \subseteq DOMAIN store'[k]

(* C9, as claimed: only the set() of a POST brings a record into           *)
(* existence, and every record that exists has id, zipCode and createdAt.  *)
C9_OnlyCreateActivates == [][C9_Created]_vars

---------------------------------------------------------------------------
\* The write step of a PUT that supplied no name.
C10_Kept ==
    (/\ last'.op = "PutUpdate" /\ last'.status = 200
     /\ ~Supplied(last'.body, "name")
     /\ Has(store[last'.id], "name")) =>
      store'[last'.id].name = store[last'.id].name

(* C10, as claimed: the update of a PUT that supplied no name leaves the   *)
(* stored name as it is, as it would in either serial order of two PUTs.   *)
C10_NameNotReverted == [][C10_Kept]_vars

=============================================================================
